---- MODULE Spec2Model ----
(***************************************************************************)
(* Model of the OCR Agent application: the utility functions of utils.py,  *)
(* the prompt builder of app.py and the Streamlit main flow of app.py.     *)
(* Python str values are TLA+ strings; Len, SubSeq and \o act on them      *)
(* character by character.                                                 *)
(***************************************************************************)
EXTENDS Integers, Sequences, FiniteSets, TLC

(***************************************************************************)
(* Optional[str]: Python's None, or a str.                                 *)
(***************************************************************************)
None == [kind |-> "None"]

Str(s) == [kind |-> "str", val |-> s]

\* Python truthiness of an Optional[str]: None and "" are falsy.
Truthy(v) == v.kind = "str" /\ v.val # ""

(***************************************************************************)
(* Bounds of the model.                                                    *)
(***************************************************************************)
\* Longest generated raw text (the fixed example texts are longer).
MaxLen == 3

\* Characters the generated raw texts are made of.
Alphabet == {"a", " ", "\n"}

RECURSIVE StringsUpTo(_)
StringsUpTo(n) ==
    IF n = 0 THEN {""}
    ELSE LET P == StringsUpTo(n - 1)
         IN  P \cup {s \o c : s \in P, c \in Alphabet}

ExampleTexts ==
    {"Hello world test", "line1\nline2\nline3", "Test data", "a\tb  c\n"}

Texts == StringsUpTo(MaxLen) \cup ExampleTexts

\* Longest run of key characters in a generated API key.
MaxKeyLen == 12

\* Inputs of type Optional[str].
OptTexts == {None} \cup {Str(t) : t \in Texts}

\* Document-type tags: the selectbox options of the sidebar and strings
\* no table knows.
KnownTags == {"Invoice", "Receipt", "Email", "General Document"}

Tags == KnownTags \cup {"Auto-detect", "NotARealType", "invoice", ""}

\* Readings of the wall clock.
Clocks ==
    { [year |-> 2024, month |-> 1, day |-> 5, hour |-> 9, minute |-> 3,
       second |-> 7, microsecond |-> 0],
      [year |-> 2025, month |-> 12, day |-> 31, hour |-> 23, minute |-> 59,
       second |-> 58, microsecond |-> 4210] }

(***************************************************************************)
(* String helpers.                                                         *)
(***************************************************************************)
CharAt(s, i) == SubSeq(s, i, i)

\* Python's `f in s`.
Contains(s, f) ==
    \E i \in 1..(Len(s) - Len(f) + 1) : SubSeq(s, i, i + Len(f) - 1) = f

\* Least index >= start at which f occurs in s, 0 when there is none
\* (s.find(f, start), 1-based).
Find(s, f, start) ==
    LET Hits == {i \in start..(Len(s) - Len(f) + 1) :
                    SubSeq(s, i, i + Len(f) - 1) = f}
    IN  IF Hits = {} THEN 0 ELSE CHOOSE i \in Hits : \A j \in Hits : i <= j

\* "=" * n
RECURSIVE Repeat(_, _)
Repeat(c, n) == IF n <= 0 THEN "" ELSE c \o Repeat(c, n - 1)

\* str.isspace() of one character (ASCII whitespace).
IsSpace(c) == c \in {" ", "\n", "\t", "\r", "\f"}

\* str.split(): runs of whitespace separate the tokens, no empty token.
RECURSIVE SplitWhitespace(_, _, _, _)
SplitWhitespace(s, i, cur, acc) ==
    IF i > Len(s)
    THEN IF cur # "" THEN Append(acc, cur) ELSE acc
    ELSE IF IsSpace(CharAt(s, i))
         THEN SplitWhitespace(s, i + 1, "",
                              IF cur # "" THEN Append(acc, cur) ELSE acc)
         ELSE SplitWhitespace(s, i + 1, cur \o CharAt(s, i), acc)

split(s) == SplitWhitespace(s, 1, "", <<>>)

\* str.split(sep) for a one-character sep: every separator ends a segment,
\* empty segments are kept.
RECURSIVE SplitOn(_, _, _, _, _)
SplitOn(s, sep, i, cur, acc) ==
    IF i > Len(s)
    THEN Append(acc, cur)
    ELSE IF CharAt(s, i) = sep
         THEN SplitOn(s, sep, i + 1, "", Append(acc, cur))
         ELSE SplitOn(s, sep, i + 1, cur \o CharAt(s, i), acc)

split_sep(s, sep) == SplitOn(s, sep, 1, "", <<>>)

(***************************************************************************)
(* datetime formatting.                                                    *)
(***************************************************************************)
Digit(n) == SubSeq("0123456789", n + 1, n + 1)

Pad2(n) == Digit((n \div 10) % 10) \o Digit(n % 10)

Pad4(n) == Pad2(n \div 100) \o Pad2(n % 100)

Pad6(n) == Pad2(n \div 10000) \o Pad4(n % 10000)

\* datetime.strftime("%Y-%m-%d %H:%M:%S")
strftime(t) ==
    Pad4(t.year) \o "-" \o Pad2(t.month) \o "-" \o Pad2(t.day) \o " " \o
    Pad2(t.hour) \o ":" \o Pad2(t.minute) \o ":" \o Pad2(t.second)

\* datetime.isoformat(): the microseconds are left out when they are 0.
isoformat(t) ==
    Pad4(t.year) \o "-" \o Pad2(t.month) \o "-" \o Pad2(t.day) \o "T" \o
    Pad2(t.hour) \o ":" \o Pad2(t.minute) \o ":" \o Pad2(t.second) \o
    (IF t.microsecond = 0 THEN "" ELSE "." \o Pad6(t.microsecond))

(***************************************************************************)
(* utils.py                                                                *)
(***************************************************************************)
\* Width of the separator rules of format_extracted_data.
SeparatorWidth == 50

\* str.rstrip()
RECURSIVE rstrip(_)
rstrip(s) ==
    IF s # "" /\ IsSpace(CharAt(s, Len(s)))
    THEN rstrip(SubSeq(s, 1, Len(s) - 1))
    ELSE s

\* Variant of format_extracted_data that tidies the text it embeds.
format_extracted_data_stripped(raw_text, t) ==
    IF ~Truthy(raw_text)
    THEN "No data extracted"
    ELSE ("Extraction Timestamp: " \o strftime(t) \o "\n\n") \o
         (Repeat("=", SeparatorWidth) \o "\n") \o
         rstrip(raw_text.val) \o
         ("\n" \o Repeat("=", SeparatorWidth))

\* Variant of format_extracted_data whose closing rule is one short.
format_extracted_data_shortrule(raw_text, t) ==
    IF ~Truthy(raw_text)
    THEN "No data extracted"
    ELSE ("Extraction Timestamp: " \o strftime(t) \o "\n\n") \o
         (Repeat("=", SeparatorWidth) \o "\n") \o
         raw_text.val \o
         ("\n" \o Repeat("=", SeparatorWidth - 1))

format_extracted_data(raw_text, t) ==
    IF ~Truthy(raw_text)
    THEN "No data extracted"
    ELSE ("Extraction Timestamp: " \o strftime(t) \o "\n\n") \o
         (Repeat("=", SeparatorWidth) \o "\n") \o
         raw_text.val \o
         ("\n" \o Repeat("=", SeparatorWidth))

\* str.lstrip()
RECURSIVE lstrip(_)
lstrip(s) ==
    IF s # "" /\ IsSpace(CharAt(s, 1))
    THEN lstrip(SubSeq(s, 2, Len(s)))
    ELSE s

\* str.strip()
strip(s) == rstrip(lstrip(s))

\* API keys handed to validate_api_key: None, the keys of the tests, and
\* runs of key characters with whitespace around them.
KeyPads == {"", " ", "\n\t"}

ApiKeyInputs ==
    {None} \cup
    {Str(k) : k \in {"sk-1234567890abcdef", "short", "          ",
                     "12345 6789"}} \cup
    {Str(l \o Repeat("k", n) \o r) :
        l \in KeyPads, r \in KeyPads, n \in 0..MaxKeyLen}

\* Variant of validate_api_key that measures the key as typed.
validate_api_key_unstripped(api_key) ==
    IF ~Truthy(api_key) \/ Len(api_key.val) < 10 THEN FALSE ELSE TRUE

validate_api_key(api_key) ==
    IF ~Truthy(api_key) \/ Len(strip(api_key.val)) < 10 THEN FALSE ELSE TRUE

\* The table `fields` of get_document_type_fields.
fields ==
    [d \in KnownTags |->
        CASE d = "Invoice" ->
                <<"Invoice Number", "Invoice Date", "Vendor Name",
                  "Customer Name", "Line Items", "Subtotal", "Tax",
                  "Total Amount">>
          [] d = "Receipt" ->
                <<"Store Name", "Receipt Number", "Date and Time",
                  "Items Purchased", "Subtotal", "Tax", "Total Amount",
                  "Payment Method">>
          [] d = "Email" ->
                <<"From", "To", "Date", "Subject", "Body Content",
                  "Attachments">>
          [] d = "General Document" ->
                <<"Document Title", "Date", "Author/Sender", "Key Entities",
                  "Summary">>]

\* Variant of get_document_type_fields with fields.get(doc_type, []).
get_document_type_fields_nofallback(doc_type) ==
    IF doc_type \in DOMAIN fields THEN fields[doc_type] ELSE <<>>

\* fields.get(doc_type, fields["General Document"])
get_document_type_fields(doc_type) ==
    IF doc_type \in DOMAIN fields
    THEN fields[doc_type]
    ELSE fields["General Document"]

\* The dicts of parse_model_name: each known name maps to itself.
openai_models ==
    [m \in {"gpt-4-vision-preview", "gpt-4o", "gpt-4o-mini"} |-> m]

gemini_models ==
    [m \in {"gemini-pro-vision", "gemini-1.5-pro", "gemini-1.5-flash"} |-> m]

\* dict.get(key, default)
dict_get(d, key, default) == IF key \in DOMAIN d THEN d[key] ELSE default

\* Provider and model names handed to parse_model_name: the sidebar's
\* options, the names of the two dicts and names neither knows.
ProviderInputs == {"OpenAI", "Google Gemini", "Gemini", "openai", ""}

ModelInputs ==
    DOMAIN openai_models \cup DOMAIN gemini_models \cup
    {"gpt-4-turbo", "GPT-4o", "gemini-2.0", ""}

\* Variant of parse_model_name that lets an unknown name through.
parse_model_name_passthrough(provider, model) ==
    IF provider = "OpenAI"
    THEN dict_get(openai_models, model, model)
    ELSE dict_get(gemini_models, model, model)

parse_model_name(provider, model) ==
    IF provider = "OpenAI"
    THEN dict_get(openai_models, model, "gpt-4o")
    ELSE dict_get(gemini_models, model, "gemini-1.5-pro")

\* Variant of create_summary_stats that counts words with split(" ").
create_summary_stats_splitspace(extracted_text, t) ==
    IF ~Truthy(extracted_text)
    THEN [status |-> "No data"]
    ELSE [status |-> "Success",
          character_count |-> Len(extracted_text.val),
          word_count |-> Len(split_sep(extracted_text.val, " ")),
          line_count |-> Len(split_sep(extracted_text.val, "\n")),
          timestamp |-> isoformat(t)]

\* Variant of create_summary_stats that tests `is None` instead of `not`.
create_summary_stats_isnone(extracted_text, t) ==
    IF extracted_text = None
    THEN [status |-> "No data"]
    ELSE [status |-> "Success",
          character_count |-> Len(extracted_text.val),
          word_count |-> Len(split(extracted_text.val)),
          line_count |-> Len(split_sep(extracted_text.val, "\n")),
          timestamp |-> isoformat(t)]

create_summary_stats(extracted_text, t) ==
    IF ~Truthy(extracted_text)
    THEN [status |-> "No data"]
    ELSE [status |-> "Success",
          character_count |-> Len(extracted_text.val),
          word_count |-> Len(split(extracted_text.val)),
          line_count |-> Len(split_sep(extracted_text.val, "\n")),
          timestamp |-> isoformat(t)]

(***************************************************************************)
(* app.py: create_extraction_prompt                                        *)
(***************************************************************************)
\* The literal is no f-string: "{doc_type}" stays in the text as written.
base_prompt ==
    "You are an expert document analyzer. Extract all relevant entities from the provided document image.\n" \o
    "    \n" \o
    "Document Type: {doc_type}\n" \o
    "\n" \o
    "Please extract and structure the following information:\n"

invoice_fields ==
    "\n" \o
    "- Invoice Number\n" \o
    "- Invoice Date\n" \o
    "- Due Date\n" \o
    "- Vendor/Supplier Name\n" \o
    "- Vendor Address\n" \o
    "- Vendor Contact\n" \o
    "- Customer/Buyer Name\n" \o
    "- Customer Address\n" \o
    "- Billing Address\n" \o
    "- Shipping Address\n" \o
    "- Line Items (with descriptions, quantities, unit prices, totals)\n" \o
    "- Subtotal\n" \o
    "- Tax Amount\n" \o
    "- Tax Rate\n" \o
    "- Discount (if any)\n" \o
    "- Total Amount\n" \o
    "- Payment Terms\n" \o
    "- Currency\n" \o
    "- Purchase Order Number (if any)\n"

receipt_fields ==
    "\n" \o
    "- Store/Merchant Name\n" \o
    "- Store Address\n" \o
    "- Store Contact\n" \o
    "- Receipt Number/Transaction ID\n" \o
    "- Date and Time\n" \o
    "- Cashier/Server Name (if any)\n" \o
    "- Items Purchased (with quantities and prices)\n" \o
    "- Subtotal\n" \o
    "- Tax Amount\n" \o
    "- Total Amount\n" \o
    "- Payment Method\n" \o
    "- Card Last 4 Digits (if applicable)\n" \o
    "- Change Given (if any)\n" \o
    "- Return Policy Information\n"

email_fields ==
    "\n" \o
    "- From: Sender name and email address\n" \o
    "- To: Recipient name(s) and email address(es)\n" \o
    "- CC: Carbon copy recipients (if any)\n" \o
    "- BCC: Blind carbon copy (if visible)\n" \o
    "- Date and Time\n" \o
    "- Subject Line\n" \o
    "- Email Body Content\n" \o
    "- Attachments Mentioned\n" \o
    "- Signature Block\n" \o
    "- Contact Information\n" \o
    "- Any URLs or Links\n" \o
    "- Action Items or Requests\n" \o
    "- Key Dates or Deadlines\n"

general_fields ==
    "\n" \o
    "- Document Title/Type\n" \o
    "- Document Date\n" \o
    "- Sender/Author Information\n" \o
    "- Recipient Information\n" \o
    "- Key Entities (Names, Organizations, Locations)\n" \o
    "- Important Dates\n" \o
    "- Monetary Amounts\n" \o
    "- Contact Information\n" \o
    "- Reference Numbers\n" \o
    "- Main Content Summary\n" \o
    "- Action Items (if any)\n"

closing_instructions ==
    "\n" \o
    "\n" \o
    "Format your response as a structured JSON-like output with clear labels and values.\n" \o
    "If a field is not present in the document, mark it as \"Not found\" or \"N/A\".\n" \o
    "Be thorough and extract all visible information from the document.\n"

specific_fields(doc_type) ==
    IF doc_type = "Invoice" THEN invoice_fields
    ELSE IF doc_type = "Receipt" THEN receipt_fields
    ELSE IF doc_type = "Email" THEN email_fields
    ELSE general_fields

\* Variant of create_extraction_prompt whose Receipt branch carries the
\* Invoice list.
create_extraction_prompt_pasted(doc_type) ==
    base_prompt \o
    (IF doc_type = "Receipt" THEN invoice_fields ELSE specific_fields(doc_type))
    \o closing_instructions

\* Variant of create_extraction_prompt that fills the "{doc_type}"
\* placeholder, as base_prompt.format(doc_type=doc_type) would.
create_extraction_prompt_formatted(doc_type) ==
    LET p == Find(base_prompt, "{doc_type}", 1)
    IN  SubSeq(base_prompt, 1, p - 1) \o doc_type \o
        SubSeq(base_prompt, p + Len("{doc_type}"), Len(base_prompt)) \o
        specific_fields(doc_type) \o closing_instructions

create_extraction_prompt(doc_type) ==
    base_prompt \o specific_fields(doc_type) \o closing_instructions

(***************************************************************************)
(* app.py: the sidebar, the uploader and the collaborators' answers.       *)
(***************************************************************************)
Providers == {"OpenAI", "Google Gemini"}

\* The options of the "Model" selectbox.
ModelsOf(provider) ==
    IF provider = "OpenAI"
    THEN {"gpt-4o", "gpt-4o-mini", "gpt-4-turbo"}
    ELSE {"gemini-pro-vision", "gemini-1.5-pro", "gemini-1.5-flash"}

\* The options of the "Document Type" selectbox.
DocTypeOptions ==
    {"Auto-detect", "Invoice", "Receipt", "Email", "General Document"}

ApiKeys == {"", "sk-test-0123456789"}

\* Uploaded files: one PIL can open, one it cannot (the uploader takes pdf).
Files ==
    { [name |-> "invoice.png", kind |-> "image"],
      [name |-> "scan.pdf", kind |-> "pdf"] }

\* The database part of the sidebar: the credentials exist only when the
\* checkbox is ticked.
DbSettings ==
    {[enable_db |-> FALSE, supabase_url |-> "", supabase_key |-> "",
      table_name |-> "ocr_documents"]}
    \cup
    {[enable_db |-> TRUE, supabase_url |-> u, supabase_key |-> k,
      table_name |-> "ocr_documents"] :
        u \in {"", "https://db.example"}, k \in {"", "anon-key"}}

\* Everything one script run reads from its widgets.
Widgets ==
    {[api_provider |-> pr, api_key |-> ak, model_name |-> m, doc_type |-> d,
      db |-> s, uploaded_file |-> f] :
        pr \in Providers, ak \in ApiKeys, m \in {"gpt-4o", "gemini-1.5-pro"},
        d \in DocTypeOptions, s \in DbSettings, f \in Files \cup {None}}

ValidWidgets == {w \in Widgets : w.model_name \in ModelsOf(w.api_provider)}

\* What the AI provider does with a request: it answers with text, which
\* may be empty, or the call raises.
ProviderReplies ==
    { [kind |-> "text", text |-> "Invoice Number: 42\nTotal Amount: 10"],
      [kind |-> "text", text |-> ""],
      [kind |-> "raises", msg |-> "Incorrect API key provided"] }

(***************************************************************************)
(* app.py: functions.  A function that can raise returns                   *)
(* [raised |-> TRUE, value |-> message] in that case.                      *)
(***************************************************************************)
\* create_client raises or returns a client; without both credentials no
\* client is asked for.
get_supabase_client(url, key, connects) ==
    IF url # "" /\ key # ""
    THEN IF connects
         THEN [client |-> [url |-> url, key |-> key], errors |-> {}]
         ELSE [client |-> None, errors |-> {"Error connecting to Supabase"}]
    ELSE [client |-> None, errors |-> {}]

save_to_supabase(client, table_name, data, accepts) ==
    IF accepts
    THEN [ok |-> TRUE, errors |-> {},
          insert |-> [table |-> table_name, data |-> data]]
    ELSE [ok |-> FALSE, errors |-> {"Error saving to database"},
          insert |-> None]

\* Variant of get_llm that tests for the Gemini option of the sidebar.
get_llm_gemini_test(provider, api_key, model) ==
    IF provider = "Google Gemini"
    THEN [class |-> "ChatGoogleGenerativeAI", model |-> model,
          google_api_key |-> api_key, temperature |-> 0]
    ELSE [class |-> "ChatOpenAI", model |-> model,
          openai_api_key |-> api_key, temperature |-> 0]

get_llm(provider, api_key, model) ==
    IF provider = "OpenAI"
    THEN [class |-> "ChatOpenAI", model |-> model,
          openai_api_key |-> api_key, temperature |-> 0]
    ELSE [class |-> "ChatGoogleGenerativeAI", model |-> model,
          google_api_key |-> api_key, temperature |-> 0]

\* The request names the prompt by the doc_type it was built from; its
\* text is create_extraction_prompt(prompt_of).
process_image_with_vision(image_bytes, doc_type, llm, provider, reply) ==
    LET prompt_text == create_extraction_prompt(doc_type)
        request ==
            IF provider = "OpenAI"
            THEN [format |-> "HumanMessage", sent_to |-> llm.class,
                  model |-> llm.model, prompt_of |-> doc_type,
                  text |-> prompt_text, image |-> image_bytes]
            ELSE [format |-> "generate_content",
                  sent_to |-> "genai.GenerativeModel",
                  api_key |-> IF "google_api_key" \in DOMAIN llm
                              THEN llm.google_api_key ELSE "",
                  model |-> IF "model" \in DOMAIN llm
                            THEN llm.model ELSE "gemini-1.5-flash",
                  prompt_of |-> doc_type,
                  text |-> prompt_text, image |-> image_bytes]
    IN  IF reply.kind = "raises"
        THEN [raised |-> TRUE, value |-> reply.msg, request |-> request]
        ELSE [raised |-> FALSE, value |-> reply.text, request |-> request]

\* readable: uploaded_file.read() returns; otherwise it raises.  Image.open
\* raises on a file that is no image.  failure names the step that raised
\* and whose handler built the result: "read", "image", "provider", or
\* "none" when the provider's answer is returned.
extract_entities(uploaded_file, doc_type, provider, api_key, model, readable, reply) ==
    IF ~readable
    THEN [result |-> Str("Error: " \o "I/O operation on closed file"),
          failure |-> "read", llm |-> None, request |-> None]
    ELSE IF uploaded_file.kind # "image"
    THEN [result |-> Str("Error processing image: " \o
                         "cannot identify image file"),
          failure |-> "image", llm |-> None, request |-> None]
    ELSE LET img_byte_arr == "JPEG(" \o uploaded_file.name \o ")"
             llm == get_llm(provider, api_key, model)
             r == process_image_with_vision(img_byte_arr, doc_type, llm,
                                            provider, reply)
         IN  IF r.raised
             THEN [result |-> Str("Error processing image: " \o r.value),
                   failure |-> "provider", llm |-> llm,
                   request |-> r.request]
             ELSE [result |-> Str(r.value), failure |-> "none", llm |-> llm,
                   request |-> r.request]

\* Variant of the doc-type resolution that passes the selection through.
resolve_doc_type_unresolved(doc_type) == doc_type

\* actual_doc_type of the main flow.
resolve_doc_type(doc_type) ==
    IF doc_type # "Auto-detect" THEN doc_type ELSE "General Document"

(***************************************************************************)
(* State.                                                                  *)
(***************************************************************************)
VARIABLES
    op,             \* the utility function of the last call, "idle" before any
    arg,            \* the argument of that call
    now,            \* the wall-clock reading that call took
    ret,            \* the value that call returned
    widgets,        \* the widget values the script runs read
    session_state,  \* st.session_state
    shown,          \* what the last script run put on the page
    run             \* what the last script run called and handed out

utilvars == <<op, arg, now, ret>>

flowvars == <<widgets, session_state, shown, run>>

vars == <<op, arg, now, ret, widgets, session_state, shown, run>>

Clock0 == CHOOSE t \in Clocks : t.microsecond = 0

\* A script run in which "Extract Entities" was not pressed.
NoRun ==
    [clicked |-> FALSE, call |-> None, out |-> None, download |-> None,
     save_clicked |-> FALSE, client |-> None, insert |-> None]

UtilInit ==
    /\ op = "idle"
    /\ arg = None
    /\ now = Clock0
    /\ ret = None

\* First script run of a session: default widget values, nothing uploaded.
FlowInit ==
    /\ widgets \in {w \in ValidWidgets :
                        /\ w.uploaded_file = None
                        /\ w.doc_type = "Auto-detect"
                        /\ w.api_provider = "OpenAI"
                        /\ ~w.db.enable_db}
    /\ session_state = [k \in {} |-> ""]
    /\ shown = {"Please upload a document to begin extraction."}
    /\ run = NoRun

Init == UtilInit /\ FlowInit

(***************************************************************************)
(* utils.py and create_extraction_prompt, called on their own.             *)
(***************************************************************************)
Call_get_document_type_fields ==
    \E d \in Tags :
        /\ op' = "get_document_type_fields"
        /\ arg' = d
        /\ ret' = get_document_type_fields(d)
        /\ UNCHANGED <<now, flowvars>>

Call_create_extraction_prompt ==
    \E d \in Tags :
        /\ op' = "create_extraction_prompt"
        /\ arg' = d
        /\ ret' = create_extraction_prompt(d)
        /\ UNCHANGED <<now, flowvars>>

Call_format_extracted_data ==
    \E v \in OptTexts, t \in Clocks :
        /\ op' = "format_extracted_data"
        /\ arg' = v
        /\ now' = t
        /\ ret' = format_extracted_data(v, t)
        /\ UNCHANGED flowvars

Call_create_summary_stats ==
    \E v \in OptTexts, t \in Clocks :
        /\ op' = "create_summary_stats"
        /\ arg' = v
        /\ now' = t
        /\ ret' = create_summary_stats(v, t)
        /\ UNCHANGED flowvars

Call_validate_api_key ==
    \E k \in ApiKeyInputs :
        /\ op' = "validate_api_key"
        /\ arg' = k
        /\ ret' = validate_api_key(k)
        /\ UNCHANGED <<now, flowvars>>

Call_parse_model_name ==
    \E pr \in ProviderInputs, m \in ModelInputs :
        /\ op' = "parse_model_name"
        /\ arg' = [provider |-> pr, model |-> m]
        /\ ret' = parse_model_name(pr, m)
        /\ UNCHANGED <<now, flowvars>>

\* extract_entities called on its own, with provider values the sidebar
\* does not offer among them.
Call_extract_entities ==
    \E f \in Files, d \in {"Invoice", "General Document"},
       pr \in ProviderInputs, k \in ApiKeys,
       m \in {"gpt-4o", "gemini-1.5-pro"},
       readable \in BOOLEAN, reply \in ProviderReplies :
        /\ op' = "extract_entities"
        /\ arg' = [uploaded_file |-> f, doc_type |-> d, provider |-> pr,
                   api_key |-> k, model |-> m]
        /\ ret' = extract_entities(f, d, pr, k, m, readable, reply)
        /\ UNCHANGED <<now, flowvars>>

UtilNext ==
    \/ Call_extract_entities
    \/ Call_parse_model_name
    \/ Call_validate_api_key
    \/ Call_get_document_type_fields
    \/ Call_create_extraction_prompt
    \/ Call_format_extracted_data
    \/ Call_create_summary_stats

(***************************************************************************)
(* app.py: one Streamlit script run per action.  What st.button returns    *)
(* is an input of the run.                                                 *)
(***************************************************************************)
\* A run in which "Extract Entities" is not pressed: the user changed the
\* widgets or the upload, and the page is drawn again.
Render ==
    \E w \in ValidWidgets :
        /\ widgets' = w
        /\ shown' = IF w.uploaded_file = None
                    THEN {"Please upload a document to begin extraction."}
                    ELSE {}
        /\ run' = NoRun
        /\ UNCHANGED <<session_state, utilvars>>

\* "Extract Entities" pressed with no API key.
ExtractWithoutKey ==
    LET w == widgets
    IN  /\ w.uploaded_file # None
        /\ w.api_key = ""
        /\ shown' = {"Please enter your API key in the sidebar!"}
        /\ run' = [NoRun EXCEPT !.clicked = TRUE]
        /\ UNCHANGED <<widgets, session_state, utilvars>>

\* Variant of the "Save to Database" part that stores the display string.
SaveToDatabase_formatted(w, actual_doc_type, result, save_clicked, connects, accepts, t) ==
    IF ~(w.db.enable_db /\ save_clicked)
    THEN [shown |-> {}, client |-> None, insert |-> None]
    ELSE IF w.db.supabase_url = "" \/ w.db.supabase_key = ""
    THEN [shown |-> {"Please enter Supabase credentials in the sidebar!"},
          client |-> None, insert |-> None]
    ELSE LET c == get_supabase_client(w.db.supabase_url, w.db.supabase_key,
                                      connects)
         IN  IF c.client = None
             THEN [shown |-> c.errors, client |-> None, insert |-> None]
             ELSE LET db_data ==
                          [document_type |-> actual_doc_type,
                           filename |-> w.uploaded_file.name,
                           extracted_text |->
                               format_extracted_data(Str(result), t),
                           ai_provider |-> w.api_provider,
                           model_used |-> w.model_name,
                           created_at |-> isoformat(t)]
                      saved == save_to_supabase(c.client, w.db.table_name,
                                                db_data, accepts)
                  IN  [shown |-> saved.errors \cup
                                 (IF saved.ok
                                  THEN {"Successfully saved to database!"}
                                  ELSE {"Failed to save to database."}),
                       client |-> c.client, insert |-> saved.insert]

\* The "Save to Database" part of the success branch.
SaveToDatabase(w, actual_doc_type, result, save_clicked, connects, accepts, t) ==
    IF ~(w.db.enable_db /\ save_clicked)
    THEN [shown |-> {}, client |-> None, insert |-> None]
    ELSE IF w.db.supabase_url = "" \/ w.db.supabase_key = ""
    THEN [shown |-> {"Please enter Supabase credentials in the sidebar!"},
          client |-> None, insert |-> None]
    ELSE LET c == get_supabase_client(w.db.supabase_url, w.db.supabase_key,
                                      connects)
         IN  IF c.client = None
             THEN [shown |-> c.errors, client |-> None, insert |-> None]
             ELSE LET db_data ==
                          [document_type |-> actual_doc_type,
                           filename |-> w.uploaded_file.name,
                           extracted_text |-> result,
                           ai_provider |-> w.api_provider,
                           model_used |-> w.model_name,
                           created_at |-> isoformat(t)]
                      saved == save_to_supabase(c.client, w.db.table_name,
                                                db_data, accepts)
                  IN  [shown |-> saved.errors \cup
                                 (IF saved.ok
                                  THEN {"Successfully saved to database!"}
                                  ELSE {"Failed to save to database."}),
                       client |-> c.client, insert |-> saved.insert]

\* "Extract Entities" pressed with an API key.
Extract ==
    \E readable \in BOOLEAN, reply \in ProviderReplies,
       save_clicked \in BOOLEAN, connects \in BOOLEAN, accepts \in BOOLEAN,
       t \in Clocks :
        /\ widgets.uploaded_file # None
        /\ widgets.api_key # ""
        /\ LET w == widgets
               actual_doc_type == resolve_doc_type(w.doc_type)
               out == extract_entities(w.uploaded_file, actual_doc_type,
                                       w.api_provider, w.api_key,
                                       w.model_name, readable, reply)
               call == [doc_type |-> actual_doc_type,
                        provider |-> w.api_provider, model |-> w.model_name]
           IN  IF Truthy(out.result)
               THEN LET result == out.result.val
                        db == SaveToDatabase(w, actual_doc_type, result,
                                             save_clicked, connects, accepts, t)
                    IN  /\ shown' = {"Entities extracted successfully!",
                                     "Download Results"} \cup db.shown
                        /\ session_state' =
                              [last_result |-> result,
                               last_filename |-> w.uploaded_file.name,
                               last_doc_type |-> actual_doc_type]
                        /\ run' = [clicked |-> TRUE, call |-> call, out |-> out,
                                   download |->
                                      [data |-> result,
                                       file_name |-> "extracted_entities_" \o
                                           w.uploaded_file.name \o ".txt"],
                                   save_clicked |-> w.db.enable_db /\ save_clicked,
                                   client |-> db.client, insert |-> db.insert]
               ELSE /\ shown' = {"Failed to extract entities. Please try again."}
                    /\ run' = [NoRun EXCEPT !.clicked = TRUE, !.call = call,
                                            !.out = out]
                    /\ UNCHANGED session_state
        /\ UNCHANGED <<widgets, utilvars>>

Next ==
    \/ Render
    \/ ExtractWithoutKey
    \/ Extract

Spec == Init /\ [][Next]_vars

UtilSpec == Init /\ [][UtilNext]_vars

(***************************************************************************)
(* Properties of the utility functions, checked under UtilSpec.            *)
(***************************************************************************)
\* The names of fs from position k on occur in s at increasing positions,
\* the first of them at or after start.
RECURSIVE OccursInOrder(_, _, _, _)
OccursInOrder(s, fs, k, start) ==
    \/ k > Len(fs)
    \/ LET p == Find(s, fs[k], start)
       IN  p # 0 /\ OccursInOrder(s, fs, k + 1, p + 1)

\* The field names the prompt words differently from the field table
\* ("Vendor/Supplier Name", "Customer/Buyer Name", "Store/Merchant Name",
\* "Sender/Author Information").
RewordedFields(d) ==
    CASE d = "Invoice" -> {"Vendor Name", "Customer Name"}
      [] d = "Receipt" -> {"Store Name"}
      [] d = "Email" -> {}
      [] d = "General Document" -> {"Author/Sender"}

\* C1 as stated: for each of the four document types the prompt contains
\* every field name of get_document_type_fields, in the list's order.
C1_PromptListsAllFieldsInOrder ==
    (op = "create_extraction_prompt" /\ arg \in KnownTags) =>
        LET fs == get_document_type_fields(arg)
        IN  /\ \A i \in 1..Len(fs) : Contains(ret, fs[i])
            /\ OccursInOrder(ret, fs, 1, 1)

\* C1 amended: for each of the four document types the prompt contains, in
\* the list's relative order, every field name of get_document_type_fields
\* except the reworded ones, and contains none of the reworded ones.
C1_PromptListsWordedFieldsInOrder ==
    (op = "create_extraction_prompt" /\ arg \in KnownTags) =>
        LET fs == get_document_type_fields(arg)
            Kept(f) == f \notin RewordedFields(arg)
        IN  /\ \A i \in 1..Len(fs) :
                    Contains(ret, fs[i]) <=> Kept(fs[i])
            /\ OccursInOrder(ret, SelectSeq(fs, Kept), 1, 1)

C1_Witness ==
    /\ op = "create_extraction_prompt"
    /\ arg = "Receipt"
    /\ Contains(ret, "Receipt Number")
    /\ ~Contains(ret, "Store Name")

\* C3: get_document_type_fields returns a non-empty list for every tag,
\* each known type's own list, and the General Document list for every
\* other tag.
C3_FieldsTotalWithFallback ==
    op = "get_document_type_fields" =>
        /\ Len(ret) > 0
        /\ arg \in KnownTags => ret = fields[arg]
        /\ arg \notin KnownTags => ret = fields["General Document"]
        /\ arg = "Invoice" =>
                \E i, j \in 1..Len(ret) :
                    ret[i] = "Invoice Number" /\ ret[j] = "Total Amount"
        /\ arg \notin KnownTags =>
                \E i, j \in 1..Len(ret) :
                    ret[i] = "Document Title" /\ ret[j] = "Summary"
        /\ arg \in KnownTags =>
                \A d \in KnownTags \ {arg} : fields[d] # ret

C3_Witness ==
    /\ op = "get_document_type_fields"
    /\ arg = "NotARealType"
    /\ ret = fields["General Document"]

\* Number of whitespace-delimited tokens of t: the positions where a
\* non-whitespace character starts the text or follows whitespace.
TokenStarts(t) ==
    {i \in 1..Len(t) :
        /\ ~IsSpace(CharAt(t, i))
        /\ i = 1 \/ IsSpace(CharAt(t, i - 1))}

Newlines(t) == {i \in 1..Len(t) : CharAt(t, i) = "\n"}

\* C5: for a non-empty text create_summary_stats has status "Success",
\* character_count the length of the text, word_count the number of
\* whitespace-delimited tokens and line_count the number of newlines plus
\* one; "Hello world test" gives 3 words, 16 characters, 1 line and
\* "line1\nline2\nline3" gives 3 lines.
C5_StatsOfNonEmptyText ==
    (op = "create_summary_stats" /\ Truthy(arg)) =>
        /\ ret.status = "Success"
        /\ ret.character_count = Len(arg.val)
        /\ ret.word_count = Cardinality(TokenStarts(arg.val))
        /\ ret.line_count = Cardinality(Newlines(arg.val)) + 1
        /\ Newlines(arg.val) = {} => ret.line_count = 1
        /\ arg.val = "Hello world test" =>
                /\ ret.word_count = 3
                /\ ret.character_count = 16
                /\ ret.line_count = 1
        /\ arg.val = "line1\nline2\nline3" => ret.line_count = 3

C5_Witness ==
    /\ op = "create_summary_stats"
    /\ arg = Str("a  ")
    /\ ret.status = "Success"
    /\ ret.word_count = 1

\* C6: for the empty string and for None create_summary_stats returns
\* status "No data" and no other statistic.
C6_NoDataForEmptyOrAbsent ==
    (op = "create_summary_stats" /\ (arg = None \/ arg = Str(""))) =>
        /\ DOMAIN ret = {"status"}
        /\ ret.status = "No data"

C6_Witness ==
    /\ op = "create_summary_stats"
    /\ arg = Str("")
    /\ ret.status = "No data"

\* C7: the raw text passed to format_extracted_data is a contiguous part
\* of the string it returns.
C7_RawTextVerbatim ==
    (op = "format_extracted_data" /\ arg.kind = "str") =>
        Contains(ret, arg.val)

C7_Witness ==
    /\ op = "format_extracted_data"
    /\ arg = Str("a \n")
    /\ Contains(ret, "a \n")

\* s is exactly: the "Extraction Timestamp" header with the clock reading
\* t, a rule of 50 "=", the text raw, and a closing rule of 50 "=".
IsFramed(s, raw, t) ==
    LET h == "Extraction Timestamp: "
        stamp == strftime(t)
        hl == Len(h) + Len(stamp) + 2
    IN  /\ Len(s) = hl + 50 + 1 + Len(raw) + 1 + 50
        /\ SubSeq(s, 1, Len(h)) = h
        /\ SubSeq(s, Len(h) + 1, Len(h) + Len(stamp)) = stamp
        /\ SubSeq(s, hl - 1, hl) = "\n\n"
        /\ \A i \in (hl + 1)..(hl + 50) : CharAt(s, i) = "="
        /\ CharAt(s, hl + 51) = "\n"
        /\ SubSeq(s, hl + 52, hl + 51 + Len(raw)) = raw
        /\ CharAt(s, hl + 52 + Len(raw)) = "\n"
        /\ \A i \in (Len(s) - 49)..Len(s) : CharAt(s, i) = "="

\* C8 as stated: for every input string, the empty one included,
\* format_extracted_data returns header, rule, raw text, closing rule.
C8_FramedForEveryString ==
    (op = "format_extracted_data" /\ arg.kind = "str") =>
        IsFramed(ret, arg.val, now)

\* C8 amended: for every non-empty input string format_extracted_data
\* returns header, rule of 50, raw text, closing rule of 50; for the empty
\* string it returns "No data extracted".
C8_FramedForNonEmptyString ==
    (op = "format_extracted_data" /\ arg.kind = "str") =>
        IF arg.val # ""
        THEN IsFramed(ret, arg.val, now)
        ELSE ret = "No data extracted"

C8_Witness ==
    /\ op = "format_extracted_data"
    /\ arg = Str("Test data")
    /\ IsFramed(ret, "Test data", now)

\* C9: create_extraction_prompt returns a non-empty string for every tag,
\* and for every tag other than Invoice, Receipt and Email the prompt of
\* "General Document", which contains "Document Title" and "Summary".
C9_PromptTotalWithFallback ==
    op = "create_extraction_prompt" =>
        /\ Len(ret) > 0
        /\ arg \notin {"Invoice", "Receipt", "Email"} =>
                /\ ret = create_extraction_prompt("General Document")
                /\ Contains(ret, "Document Title")
                /\ Contains(ret, "Summary")

C9_Witness ==
    /\ op = "create_extraction_prompt"
    /\ arg = "NotARealType"
    /\ Contains(ret, "Document Title")

(***************************************************************************)
(* Properties of the main flow, checked under Spec.                        *)
(***************************************************************************)
\* C2: when the provider call or the image processing inside
\* extract_entities fails, the caller gets an empty or absent value, the
\* flow shows "Failed to extract entities", and the run is not shown as a
\* success, not stored in session state, not offered for download and not
\* saved to the database.
C2_FailedRunTakesFailureBranch ==
    (run.out # None /\ run.out.failure \in {"image", "provider"}) =>
        /\ ~Truthy(run.out.result)
        /\ "Failed to extract entities. Please try again." \in shown
        /\ "Entities extracted successfully!" \notin shown
        /\ run.download = None
        /\ run.insert = None
        /\ \/ "last_result" \notin DOMAIN session_state
           \/ run.out.result = None
           \/ session_state["last_result"] # run.out.result.val

\* C4: in every run of the extraction flow "Auto-detect" is replaced by
\* "General Document" before it is used: the tag passed to
\* extract_entities and to create_extraction_prompt, last_doc_type of the
\* session state and document_type of the database record are never
\* "Auto-detect".
C4_AutoDetectResolvedFirst ==
    /\ run.call # None =>
            /\ run.call.doc_type # "Auto-detect"
            /\ widgets.doc_type = "Auto-detect" =>
                    run.call.doc_type = "General Document"
    /\ (run.out # None /\ run.out.request # None) =>
            run.out.request.prompt_of # "Auto-detect"
    /\ "last_doc_type" \in DOMAIN session_state =>
            session_state["last_doc_type"] # "Auto-detect"
    /\ run.insert # None =>
            run.insert.data.document_type # "Auto-detect"

C4_Witness ==
    /\ widgets.doc_type = "Auto-detect"
    /\ run.out # None
    /\ run.out.request # None
    /\ run.out.request.prompt_of = "General Document"
    /\ run.insert # None
    /\ run.insert.data.document_type = "General Document"
    /\ session_state["last_doc_type"] = "General Document"

\* Length of s between its first and its last non-whitespace character,
\* 0 when it has none.
CoreLen(s) ==
    LET NS == {i \in 1..Len(s) : ~IsSpace(CharAt(s, i))}
    IN  IF NS = {} THEN 0
        ELSE (CHOOSE i \in NS : \A j \in NS : j <= i)
             - (CHOOSE i \in NS : \A j \in NS : i <= j) + 1

\* C11: validate_api_key(k) is True exactly when k is non-empty and k
\* without its leading and trailing whitespace has at least 10 characters;
\* it is False for the empty string, for None and for any shorter key.
C11_ValidKeyIffTenAfterStrip ==
    op = "validate_api_key" =>
        /\ ret \in BOOLEAN
        /\ ret <=> (arg # None /\ arg.val # "" /\ CoreLen(arg.val) >= 10)
        /\ (arg = None \/ arg = Str("") \/ arg = Str("short")) => ~ret
        /\ arg = Str("sk-1234567890abcdef") => ret

C11_Witness ==
    /\ op = "validate_api_key"
    /\ arg = Str(" kkkkkkkkk ")
    /\ ret = FALSE

\* The model names a provider value stands for: the OpenAI names for
\* "OpenAI", the Gemini names for every other value.
KnownModels(provider) ==
    IF provider = "OpenAI"
    THEN {"gpt-4-vision-preview", "gpt-4o", "gpt-4o-mini"}
    ELSE {"gemini-pro-vision", "gemini-1.5-pro", "gemini-1.5-flash"}

\* C14: parse_model_name returns a member of the provider's known model
\* set, a known model unchanged and the default ("gpt-4o" or
\* "gemini-1.5-pro") for an unknown one, and applying it to its own result
\* with the same provider changes nothing.
C14_ParseModelNameClosed ==
    op = "parse_model_name" =>
        /\ ret \in KnownModels(arg.provider)
        /\ arg.model \in KnownModels(arg.provider) => ret = arg.model
        /\ arg.model \notin KnownModels(arg.provider) =>
                ret = IF arg.provider = "OpenAI"
                      THEN "gpt-4o" ELSE "gemini-1.5-pro"
        /\ parse_model_name(arg.provider, ret) = ret

C14_Witness ==
    /\ op = "parse_model_name"
    /\ arg = [provider |-> "OpenAI", model |-> "gpt-4-turbo"]
    /\ ret = "gpt-4o"

\* C13: get_llm and process_image_with_vision test the provider string
\* the same way, so the request format matches the client that was built:
\* the OpenAI multimodal message goes only to a ChatOpenAI client, and
\* every other provider value builds the Gemini client and makes the
\* direct-SDK image-plus-text call with that client's key and model.
C13_RequestFormatMatchesClient ==
    (op = "extract_entities" /\ ret.request # None) =>
        /\ arg.provider = "OpenAI" =>
                /\ ret.llm.class = "ChatOpenAI"
                /\ ret.request.format = "HumanMessage"
                /\ ret.request.sent_to = "ChatOpenAI"
        /\ arg.provider # "OpenAI" =>
                /\ ret.llm.class = "ChatGoogleGenerativeAI"
                /\ ret.request.format = "generate_content"
                /\ ret.request.sent_to = "genai.GenerativeModel"
                /\ ret.request.api_key = arg.api_key
                /\ ret.request.model = arg.model
        /\ ret.request.format = "HumanMessage" <=> ret.llm.class = "ChatOpenAI"

C13_Witness ==
    /\ op = "extract_entities"
    /\ arg.provider = "Gemini"
    /\ ret.request # None
    /\ ret.request.format = "generate_content"
    /\ ret.llm.class = "ChatGoogleGenerativeAI"

\* C12: a run inserts a record into the database only if in that run the
\* API key is non-empty, extract_entities returned a non-empty result,
\* Supabase storage is enabled, the Supabase URL and key are both non-empty
\* and a client was created; the record's extracted_text is then the raw
\* result unchanged and its filename the uploaded file's name.
C12_InsertOnlyWhenAllHold ==
    run.insert # None =>
        /\ run.clicked
        /\ widgets.api_key # ""
        /\ run.out # None
        /\ Truthy(run.out.result)
        /\ widgets.db.enable_db
        /\ widgets.db.supabase_url # ""
        /\ widgets.db.supabase_key # ""
        /\ run.client # None
        /\ run.insert.data.extracted_text = run.out.result.val
        /\ run.insert.data.filename = widgets.uploaded_file.name

C12_Witness ==
    /\ run.insert # None
    /\ run.out.failure = "none"
    /\ run.insert.data.extracted_text = "Invoice Number: 42\nTotal Amount: 10"
    /\ run.insert.data.filename = "invoice.png"

====
